---- MODULE Spec2Model ----
(***************************************************************************)
(* A model of pyimfit/descriptions.py: ParameterDescription,               *)
(* FunctionDescription, FunctionSetDescription, ModelDescription and       *)
(* SimpleModelDescription.                                                 *)
(*                                                                         *)
(* Python objects live in heaps, one per class: an object's identity is    *)
(* its index in the heap of its class, and a field that holds an object    *)
(* holds its index.  The list object behind FunctionSetDescription's       *)
(* _functions has a heap of its own (flists), because copy() of a function *)
(* set yields a second set that holds the very same list.                  *)
(*                                                                         *)
(* Numbers: parameter values and limits are integers (floats with an exact *)
(* integer value); a tolerance is tol/TolDen.  An optional scalar argument *)
(* x is written <<x>>, None is <<>>, a two-element sequence is <<lo, hi>>. *)
(***************************************************************************)
EXTENDS Integers, Sequences, FiniteSets, TLC

VARIABLES
    params,   \* heap of ParameterDescription: [name, value, limits, fixed]
    funcs,    \* heap of FunctionDescription: [funcType, name, parameters, attrs]
    flists,   \* heap of the list objects held in FunctionSetDescription._functions
    fsets,    \* heap of FunctionSetDescription: [name, x0, y0, functions, attrs]
    models,   \* heap of (Simple)ModelDescription: [cls, options, functionSets, attrs]
    result    \* the last call: [op, target, args, raised]

vars == <<params, funcs, flists, fsets, models, result>>

None == <<>>

\* Denominator of the tolerances the model passes to setTolerance.
TolDen == 2

\* ------------------------------------------------------------------------
\* Bounds of the model
\* ------------------------------------------------------------------------
MaxEntries == 1
\* SpecTree: parameters and functions made by constructors, sets, models
MaxParams == 2
MaxFuncs == 2
MaxSets == 3
MaxModels == 1
MaxWrites == 1
\* SpecClone: the sizes of the heaps, copies included
CloneParams == 6
CloneFuncs == 2
CloneSets == 3
CloneModels == 2

\* Inputs of the calls on a parameter entry.  Values are even, so that
\* value * (1 +- tol/TolDen) is an integer for every tolerance.
Values == {-2, 2}
LowerArgs == {None, <<0>>, <<4>>, <<-4, 0>>, <<2, 0>>}
UpperArgs == {None, <<0>>, <<2>>}
Tolerances == {-1, 0, 1, 2, 3}
Intervals == {-2, 0, 2}
LimitArgs == {-4, 0, 4}

\* Inputs of the calls that build a model
FuncArgs == <<<<"Gaussian", None>>, <<"Exponential", <<"disk">>>>, <<"Sersic", None>>, <<"Sersic", <<"bulge">>>>>>
SetNames == <<"fs0", "fs1", "fs2", "fs3", "fs4">>
NoOptions == [x \in {} |-> 0]
\* the options given to ModelDescription(options=...)
OptionArgs == {NoOptions, [GAIN |-> 4]}
\* name, value, limits and fixed flag of the parameters given to functions
ParamArgs ==
    <<<<"I_0", 2, <<-4, 0>>, FALSE>>, <<"PA", 0, None, TRUE>>,
      <<"sigma", 2, None, FALSE>>, <<"ell", 0, <<0, 2>>, FALSE>>>>
\* the value the optimizer writes back
FittedValues == {6}

NoAttrs == [x \in {} |-> 0]

\* setattr(obj, name, v) on the attribute dictionary of obj
SetAttr(attrs, name, v) ==
    [x \in (DOMAIN attrs) \cup {name} |-> IF x = name THEN v ELSE attrs[x]]

Ok(obj) == [raised |-> "None", obj |-> obj]
Raise(exc, obj) == [raised |-> exc, obj |-> obj]

\* ------------------------------------------------------------------------
\* ParameterDescription
\* ------------------------------------------------------------------------

\* A setValue that stores the bounds as given, without moving one to the value
setValueLimitsAsGiven(p, value, vmin, vmax, fixed) ==
    IF vmax = None /\ Len(vmin) # 2
    THEN Raise("ValueError", p)
    ELSE IF vmax # None /\ Len(vmin) # 1
    THEN Raise("TypeError", p)
    ELSE LET lower == vmin[1]
             upper == IF vmax = None THEN vmin[2] ELSE vmax[1]
         IN  IF lower >= upper
             THEN Raise("ValueError", p)
             ELSE Ok([name |-> p.name, value |-> value,
                      limits |-> <<lower, upper>>, fixed |-> fixed])

\* The branch of setValue taken when vmin is not None.  TypeError: vmin is a
\* sequence and vmax is given, so 'value < lower_limit' compares a float
\* with a tuple.
setValueLimits(p, value, vmin, vmax, fixed) ==
    IF vmax = None /\ Len(vmin) # 2
    THEN Raise("ValueError", p)
    ELSE IF vmax # None /\ Len(vmin) # 1
    THEN Raise("TypeError", p)
    ELSE LET lower_limit == vmin[1]
             upper_limit == IF vmax = None THEN vmin[2] ELSE vmax[1]
             lower == IF value < lower_limit THEN value ELSE lower_limit
             upper == IF value < lower_limit THEN upper_limit
                      ELSE IF value > upper_limit THEN value ELSE upper_limit
         IN  IF lower >= upper
             THEN Raise("ValueError", p)
             ELSE Ok([name |-> p.name, value |-> value,
                      limits |-> <<lower, upper>>, fixed |-> fixed])

\* A setValue that stores the value before it looks at the bounds
setValueStoringFirst(p, value, vmin, vmax, fixed) ==
    IF vmin # None
    THEN LET r == setValueLimits(p, value, vmin, vmax, fixed)
         IN  IF r.raised = "None"
             THEN r
             ELSE Raise(r.raised, [p EXCEPT !.value = value, !.fixed = fixed])
    ELSE Ok([name |-> p.name, value |-> value, limits |-> p.limits, fixed |-> fixed])

setValue(p, value, vmin, vmax, fixed) ==
    IF vmin # None
    THEN setValueLimits(p, value, vmin, vmax, fixed)
    ELSE Ok([name |-> p.name, value |-> value, limits |-> p.limits, fixed |-> fixed])

\* ParameterDescription(name, value, vmin, vmax, fixed): the object exists
\* only if setValue returns.
newParameter(name, value, vmin, vmax, fixed) ==
    setValue([name |-> name, limits |-> None], value, vmin, vmax, fixed)

setTolerance(p, tol) ==
    IF tol > TolDen \/ tol < 0
    THEN Raise("ValueError", p)
    ELSE Ok([p EXCEPT !.limits = <<(p.value * (TolDen - tol)) \div TolDen,
                                   (p.value * (TolDen + tol)) \div TolDen>>])

\* A setLimits that stores the bounds as given, without moving one to the value
setLimitsAsGiven(p, v1, v2) ==
    IF v1 >= v2
    THEN Raise("ValueError", p)
    ELSE Ok([p EXCEPT !.limits = <<v1, v2>>])

setLimits(p, v1, v2) ==
    IF v1 >= v2
    THEN Raise("ValueError", p)
    ELSE LET lo == IF v1 > p.value THEN p.value ELSE v1
             hi == IF v1 > p.value THEN v2
                   ELSE IF v2 < p.value THEN p.value ELSE v2
         IN  Ok([p EXCEPT !.limits = <<lo, hi>>])

setLimitsRel(p, i1, i2) ==
    IF i1 < 0 \/ i2 < 0
    THEN Raise("ValueError", p)
    ELSE setLimits(p, p.value - i1, p.value + i2)

\* ------------------------------------------------------------------------
\* The heap as a value: operations that allocate take a heap and return one.
\* memo is the memo dictionary of a running deepcopy (old function -> clone).
\* ------------------------------------------------------------------------
Heap ==
    [params |-> params, funcs |-> funcs, flists |-> flists, fsets |-> fsets,
     models |-> models, memo |-> NoAttrs]

Done(h, id) == [h |-> h, raised |-> "None", id |-> id]
Fail(h, exc) == [h |-> h, raised |-> exc, id |-> 0]

\* ------------------------------------------------------------------------
\* FunctionDescription
\* ------------------------------------------------------------------------

\* FunctionDescription(func_type, name), parameters=None
newFunction(h, func_type, name) ==
    LET f == [funcType |-> func_type,
              name |-> IF name = None THEN func_type ELSE name[1],
              parameters |-> <<>>, attrs |-> NoAttrs]
    IN  Done([h EXCEPT !.funcs = Append(@, f)], Len(h.funcs) + 1)

\* f.addParameter(p); p = 0 stands for an object that is no ParameterDescription
addParameter(h, f, p) ==
    IF p = 0
    THEN Fail(h, "ValueError")
    ELSE Done([h EXCEPT !.funcs[f].parameters = Append(@, p),
                        !.funcs[f].attrs = SetAttr(@, h.params[p].name, p)], f)

\* A __deepcopy__ that hands the source's parameter objects to the clone
deepcopyFunctionSharing(h, f) ==
    LET id == Len(h.funcs) + 1
    IN  Done([h EXCEPT !.funcs = Append(@, [h.funcs[f] EXCEPT !.attrs = NoAttrs]),
                       !.memo = SetAttr(@, f, id)], id)

\* FunctionDescription.__deepcopy__ behind deepcopy's memo: the clone has
\* copies of the parameters and none of the source's attributes.
deepcopyFunction(h, f) ==
    IF f \in DOMAIN h.memo
    THEN Done(h, h.memo[f])
    ELSE LET src == h.funcs[f]
             n == Len(src.parameters)
             base == Len(h.params)
             id == Len(h.funcs) + 1
             clone == [funcType |-> src.funcType, name |-> src.name,
                       parameters |-> [k \in 1..n |-> base + k],
                       attrs |-> NoAttrs]
         IN  Done([h EXCEPT
                     !.params = @ \o [k \in 1..n |-> h.params[src.parameters[k]]],
                     !.funcs = Append(@, clone),
                     !.memo = SetAttr(@, f, id)], id)

\* deepcopy(list of functions, memo): element by element, in order
RECURSIVE deepcopyFunctions(_, _)
deepcopyFunctions(h, seq) ==
    IF seq = <<>>
    THEN [h |-> h, ids |-> <<>>]
    ELSE LET r1 == deepcopyFunction(h, Head(seq))
             r2 == deepcopyFunctions(r1.h, Tail(seq))
         IN  [h |-> r2.h, ids |-> <<r1.id>> \o r2.ids]

\* ------------------------------------------------------------------------
\* FunctionSetDescription
\* ------------------------------------------------------------------------
DefaultX0 == newParameter("X0", 0, None, None, FALSE).obj
DefaultY0 == newParameter("Y0", 0, None, None, FALSE).obj

\* FunctionSetDescription(name, x0param, y0param), functions=None
newFunctionSet(h, name, x0param, y0param) ==
    LET h1 == IF x0param = None THEN [h EXCEPT !.params = Append(@, DefaultX0)] ELSE h
        x0 == IF x0param = None THEN Len(h1.params) ELSE x0param[1]
        h2 == IF y0param = None THEN [h1 EXCEPT !.params = Append(@, DefaultY0)] ELSE h1
        y0 == IF y0param = None THEN Len(h2.params) ELSE y0param[1]
        fs == [name |-> name, x0 |-> x0, y0 |-> y0,
               functions |-> Len(h.flists) + 1, attrs |-> NoAttrs]
    IN  Done([h2 EXCEPT !.flists = Append(@, <<>>), !.fsets = Append(@, fs)],
             Len(h.fsets) + 1)

FunctionSet_contains(h, fs, name) ==
    \E k \in DOMAIN h.flists[h.fsets[fs].functions] :
        h.funcs[h.flists[h.fsets[fs].functions][k]].name = name

\* An addFunction without the look-up of the name
addFunctionUnchecked(h, fs, f) ==
    IF f = 0
    THEN Fail(h, "ValueError")
    ELSE Done([h EXCEPT !.flists[h.fsets[fs].functions] = Append(@, f),
                        !.fsets[fs].attrs = SetAttr(@, h.funcs[f].name, f)], fs)

\* fs.addFunction(f); f = 0 stands for an object that is no FunctionDescription
addFunction(h, fs, f) ==
    IF f = 0
    THEN Fail(h, "ValueError")
    ELSE IF FunctionSet_contains(h, fs, h.funcs[f].name)
    THEN Fail(h, "KeyError")
    ELSE Done([h EXCEPT !.flists[h.fsets[fs].functions] = Append(@, f),
                        !.fsets[fs].attrs = SetAttr(@, h.funcs[f].name, f)], fs)

\* copy(fs): a new set with the fields of fs, its parameters and its list
\* of functions included; only the attribute dictionary is its own.
copyFunctionSet(h, fs) ==
    Done([h EXCEPT !.fsets = Append(@, h.fsets[fs])], Len(h.fsets) + 1)

\* FunctionSetDescription.__deepcopy__.  The X0, Y0 and list the constructor
\* makes are replaced at once and never reachable: they are not allocated.
deepcopyFunctionSet(h, fs) ==
    LET src == h.fsets[fs]
        base == Len(h.params)
        h1 == [h EXCEPT !.params = @ \o <<h.params[src.x0], h.params[src.y0]>>]
        r == deepcopyFunctions(h1, h.flists[src.functions])
        clone == [name |-> src.name, x0 |-> base + 1, y0 |-> base + 2,
                  functions |-> Len(r.h.flists) + 1, attrs |-> NoAttrs]
    IN  Done([r.h EXCEPT !.flists = Append(@, r.ids), !.fsets = Append(@, clone)],
             Len(r.h.fsets) + 1)

\* deepcopy(list of function sets, memo)
RECURSIVE deepcopyFunctionSets(_, _)
deepcopyFunctionSets(h, seq) ==
    IF seq = <<>>
    THEN [h |-> h, ids |-> <<>>]
    ELSE LET r1 == deepcopyFunctionSet(h, Head(seq))
             r2 == deepcopyFunctionSets(r1.h, Tail(seq))
         IN  [h |-> r2.h, ids |-> <<r1.id>> \o r2.ids]

\* ------------------------------------------------------------------------
\* ModelDescription and SimpleModelDescription
\* ------------------------------------------------------------------------

\* ModelDescription(options=options), function_sets=None
newModel(h, options) ==
    LET m == [cls |-> "ModelDescription", options |-> options,
              functionSets |-> <<>>, attrs |-> NoAttrs]
    IN  Done([h EXCEPT !.models = Append(@, m)], Len(h.models) + 1)

Model_contains(h, m, name) ==
    \E k \in DOMAIN h.models[m].functionSets :
        h.fsets[h.models[m].functionSets[k]].name = name

\* ModelDescription.addFunctionSet; fs = 0 stands for an object that is no
\* FunctionSetDescription
Model_addFunctionSet(h, m, fs) ==
    IF fs = 0
    THEN Fail(h, "ValueError")
    ELSE IF Model_contains(h, m, h.fsets[fs].name)
    THEN Fail(h, "KeyError")
    ELSE Done([h EXCEPT !.models[m].functionSets = Append(@, fs),
                        !.models[m].attrs = SetAttr(@, h.fsets[fs].name, fs)], m)

\* An addFunctionSet that SimpleModelDescription does not override
Simple_addFunctionSetInherited(h, m, fs) == Model_addFunctionSet(h, m, fs)

\* SimpleModelDescription.addFunctionSet
Simple_addFunctionSet(h, m, fs) ==
    IF Len(h.models[m].functionSets) >= 1
    THEN Fail(h, "Exception")
    ELSE Model_addFunctionSet(h, m, fs)

\* m.addFunctionSet(fs), by the class of m
addFunctionSet(h, m, fs) ==
    IF h.models[m].cls = "SimpleModelDescription"
    THEN Simple_addFunctionSet(h, m, fs)
    ELSE Model_addFunctionSet(h, m, fs)

\* SimpleModelDescription(inst): inst is None, <<m>> for a model, or <<0>>
\* for an object of another type.  A constructor that raises leaves no object.
newSimple(h, inst) ==
    LET m == [cls |-> "SimpleModelDescription", options |-> NoAttrs,
              functionSets |-> <<>>, attrs |-> NoAttrs]
        id == Len(h.models) + 1
        h0 == [h EXCEPT !.models = Append(@, m)]
    IN  IF inst = None
        THEN LET fs == newFunctionSet(h0, "fs", None, None)
             IN  Done(addFunctionSet(fs.h, id, fs.id).h, id)
        ELSE IF inst[1] = 0
        THEN Fail(h, "ValueError")
        ELSE IF Len(h.models[inst[1]].functionSets) # 1
        THEN Fail(h, "ValueError")
        ELSE LET fs == copyFunctionSet(h0, h.models[inst[1]].functionSets[1])
             IN  Done(addFunctionSet(fs.h, id, fs.id).h, id)

\* SimpleModelDescription.addFunction
Simple_addFunction(h, m, f) ==
    LET r == addFunction(h, h.models[m].functionSets[1], f)
    IN  [r EXCEPT !.id = IF r.raised = "None" THEN m ELSE 0]

\* ModelDescription.__deepcopy__: type(self)() and then the cloned list of
\* function sets in place of the new model's own.
deepcopyModel(h, m) ==
    LET made == IF h.models[m].cls = "SimpleModelDescription"
                THEN newSimple(h, None)
                ELSE newModel(h, NoAttrs)
        r == deepcopyFunctionSets(made.h, h.models[m].functionSets)
    IN  Done([r.h EXCEPT !.models[made.id].functionSets = r.ids], made.id)

\* ------------------------------------------------------------------------
\* Queries on the current heap
\* ------------------------------------------------------------------------

\* FunctionDescription.parameterList
Function_parameterList(f) == funcs[f].parameters

\* FunctionSetDescription.functionList
FunctionSet_functionList(fs) ==
    [k \in DOMAIN flists[fsets[fs].functions] |->
        funcs[flists[fsets[fs].functions][k]].funcType]

\* the loop 'for f in self._functions: params.extend(f.parameterList())'
RECURSIVE ExtendParameters(_)
ExtendParameters(fseq) ==
    IF fseq = <<>> THEN <<>>
    ELSE Function_parameterList(Head(fseq)) \o ExtendParameters(Tail(fseq))

\* A parameterList with the centre after the parameters of the functions
FunctionSet_parameterListCentreLast(fs) ==
    ExtendParameters(flists[fsets[fs].functions]) \o <<fsets[fs].x0, fsets[fs].y0>>

\* FunctionSetDescription.parameterList
FunctionSet_parameterList(fs) ==
    <<fsets[fs].x0, fsets[fs].y0>> \o ExtendParameters(flists[fsets[fs].functions])

\* ModelDescription.functionSetIndices
functionSetIndices(m) ==
    <<0>> \o [i \in 1..(Len(models[m].functionSets) - 1) |->
                Len(FunctionSet_functionList(models[m].functionSets[i]))]

RECURSIVE ExtendFunctions(_)
ExtendFunctions(sseq) ==
    IF sseq = <<>> THEN <<>>
    ELSE FunctionSet_functionList(Head(sseq)) \o ExtendFunctions(Tail(sseq))

\* ModelDescription.functionList
functionList(m) == ExtendFunctions(models[m].functionSets)

RECURSIVE ExtendSetParameters(_)

\* A getRawParameters that leaves the fixed parameters out
getRawParametersFreeOnly(m) ==
    LET free == SelectSeq(ExtendSetParameters(models[m].functionSets),
                          LAMBDA i : ~params[i].fixed)
    IN  [i \in DOMAIN free |-> params[free[i]].value]

ExtendSetParameters(sseq) ==
    IF sseq = <<>> THEN <<>>
    ELSE FunctionSet_parameterList(Head(sseq)) \o ExtendSetParameters(Tail(sseq))

\* ModelDescription.parameterList
parameterList(m) == ExtendSetParameters(models[m].functionSets)

\* ModelDescription.getRawParameters
getRawParameters(m) ==
    [i \in DOMAIN parameterList(m) |-> params[parameterList(m)[i]].value]

\* ModelDescription.getParameterLimits
getParameterLimits(m) ==
    [i \in DOMAIN parameterList(m) |-> params[parameterList(m)[i]].limits]

\* ------------------------------------------------------------------------
\* Equality and text form.  A text is the sequence of its lines; a line is
\* the record of its fields.  '{:f}' prints six decimals, which renders the
\* integers of this model exactly: a number field holds the number printed.
\* ------------------------------------------------------------------------

\* ParameterDescription.__eq__: the fixed flag is not compared
Parameter_eq(p, q) ==
    /\ params[p].name = params[q].name
    /\ params[p].value = params[q].value
    /\ params[p].limits = params[q].limits

\* list.__eq__ on lists of parameters
ParameterLists_eq(ps, qs) ==
    /\ Len(ps) = Len(qs)
    /\ \A k \in DOMAIN ps : Parameter_eq(ps[k], qs[k])

\* FunctionDescription.__eq__
Function_eq(f, g) ==
    /\ funcs[f].funcType = funcs[g].funcType
    /\ funcs[f].name = funcs[g].name
    /\ ParameterLists_eq(funcs[f].parameters, funcs[g].parameters)

\* FunctionSetDescription.__eq__
FunctionSet_eq(fs, gs) ==
    /\ fsets[fs].name = fsets[gs].name
    /\ Parameter_eq(fsets[fs].x0, fsets[gs].x0)
    /\ Parameter_eq(fsets[fs].y0, fsets[gs].y0)
    /\ Len(flists[fsets[fs].functions]) = Len(flists[fsets[gs].functions])
    /\ \A k \in DOMAIN flists[fsets[fs].functions] :
          Function_eq(flists[fsets[fs].functions][k], flists[fsets[gs].functions][k])

\* ModelDescription.__eq__
Model_eq(m, n) ==
    /\ models[m].options = models[n].options
    /\ Len(models[m].functionSets) = Len(models[n].functionSets)
    /\ \A k \in DOMAIN models[m].functionSets :
          FunctionSet_eq(models[m].functionSets[k], models[n].functionSets[k])

Line(kind, first, second, value, lower, upper) ==
    [kind |-> kind, first |-> first, second |-> second,
     value |-> value, lower |-> lower, upper |-> upper]

\* ParameterDescription.__str__: 'name value fixed', 'name value lower,upper'
\* or 'name value'
Parameter_str(p) ==
    IF params[p].fixed
    THEN Line("fixed", params[p].name, "", params[p].value, 0, 0)
    ELSE IF params[p].limits # None
    THEN Line("limits", params[p].name, "", params[p].value,
              params[p].limits[1], params[p].limits[2])
    ELSE Line("free", params[p].name, "", params[p].value, 0, 0)

\* FunctionDescription.__str__: 'FUNCTION type   # name', then the parameters
Function_str(f) ==
    <<Line("FUNCTION", funcs[f].funcType, funcs[f].name, 0, 0, 0)>>
        \o [k \in DOMAIN funcs[f].parameters |-> Parameter_str(funcs[f].parameters[k])]

RECURSIVE ExtendFunctionLines(_)
ExtendFunctionLines(fseq) ==
    IF fseq = <<>> THEN <<>>
    ELSE Function_str(Head(fseq)) \o ExtendFunctionLines(Tail(fseq))

\* FunctionSetDescription.__str__: x0, y0, then the functions
FunctionSet_str(fs) ==
    <<Parameter_str(fsets[fs].x0), Parameter_str(fsets[fs].y0)>>
        \o ExtendFunctionLines(flists[fsets[fs].functions])

RECURSIVE ExtendSetLines(_)
ExtendSetLines(sseq) ==
    IF sseq = <<>> THEN <<>>
    ELSE FunctionSet_str(Head(sseq)) \o ExtendSetLines(Tail(sseq))

\* the lines 'key<TAB>value' of the options
RECURSIVE OptionLines(_, _)
OptionLines(options, keys) ==
    IF keys = {} THEN <<>>
    ELSE LET k == CHOOSE x \in keys : TRUE
         IN  <<Line("option", k, "", options[k], 0, 0)>>
                 \o OptionLines(options, keys \ {k})

\* ModelDescription.__str__: the options, then the function sets
Model_str(m) ==
    OptionLines(models[m].options, DOMAIN models[m].options)
        \o ExtendSetLines(models[m].functionSets)

\* ------------------------------------------------------------------------
\* Calls on the heap of parameters
\* ------------------------------------------------------------------------
Call(op, target, args, raised) ==
    [op |-> op, target |-> target, args |-> args, raised |-> raised]

NewParameter(name, value, vmin, vmax, fixed) ==
    LET r == newParameter(name, value, vmin, vmax, fixed)
    IN  /\ params' = IF r.raised = "None" THEN Append(params, r.obj) ELSE params
        /\ result' = Call("ParameterDescription",
                          IF r.raised = "None" THEN Len(params) + 1 ELSE 0,
                          <<value, vmin, vmax>>, r.raised)
        /\ UNCHANGED <<funcs, flists, fsets, models>>

SetValue(i, value, vmin, vmax, fixed) ==
    LET r == setValue(params[i], value, vmin, vmax, fixed)
    IN  /\ params' = [params EXCEPT ![i] = r.obj]
        /\ result' = Call("setValue", i, <<value, vmin, vmax>>, r.raised)
        /\ UNCHANGED <<funcs, flists, fsets, models>>

SetTolerance(i, tol) ==
    LET r == setTolerance(params[i], tol)
    IN  /\ params' = [params EXCEPT ![i] = r.obj]
        /\ result' = Call("setTolerance", i, <<tol>>, r.raised)
        /\ UNCHANGED <<funcs, flists, fsets, models>>

SetLimitsRel(i, i1, i2) ==
    LET r == setLimitsRel(params[i], i1, i2)
    IN  /\ params' = [params EXCEPT ![i] = r.obj]
        /\ result' = Call("setLimitsRel", i, <<i1, i2>>, r.raised)
        /\ UNCHANGED <<funcs, flists, fsets, models>>

SetLimits(i, v1, v2) ==
    LET r == setLimits(params[i], v1, v2)
    IN  /\ params' = [params EXCEPT ![i] = r.obj]
        /\ result' = Call("setLimits", i, <<v1, v2>>, r.raised)
        /\ UNCHANGED <<funcs, flists, fsets, models>>

\* ------------------------------------------------------------------------
\* Calls on the heaps of functions, function sets and models
\* ------------------------------------------------------------------------
Commit(h) ==
    /\ params' = h.params
    /\ funcs' = h.funcs
    /\ flists' = h.flists
    /\ fsets' = h.fsets
    /\ models' = h.models

CreateFunction(func_type, name) ==
    LET r == newFunction(Heap, func_type, name)
    IN  Commit(r.h) /\ result' = Call("FunctionDescription", r.id, <<>>, r.raised)

AddParameter(f, p) ==
    LET r == addParameter(Heap, f, p)
    IN  Commit(r.h) /\ result' = Call("addParameter", f, <<p>>, r.raised)

CreateFunctionSet(name, x0param, y0param) ==
    LET r == newFunctionSet(Heap, name, x0param, y0param)
    IN  Commit(r.h) /\ result' = Call("FunctionSetDescription", r.id, <<>>, r.raised)

AddFunction(fs, f) ==
    LET r == addFunction(Heap, fs, f)
    IN  Commit(r.h) /\ result' = Call("addFunction", fs, <<f>>, r.raised)

CreateModel(options) ==
    LET r == newModel(Heap, options)
    IN  Commit(r.h) /\ result' = Call("ModelDescription", r.id, <<>>, r.raised)

AddFunctionSet(m, fs) ==
    LET r == addFunctionSet(Heap, m, fs)
    IN  Commit(r.h) /\ result' = Call("addFunctionSet", m, <<fs>>, r.raised)

CreateSimple(inst) ==
    LET r == newSimple(Heap, inst)
    IN  Commit(r.h) /\ result' = Call("SimpleModelDescription", r.id, inst, r.raised)

SimpleAddFunction(m, f) ==
    LET r == Simple_addFunction(Heap, m, f)
    IN  Commit(r.h) /\ result' = Call("Simple.addFunction", m, <<f>>, r.raised)

DeepcopyFunction(f) ==
    LET r == deepcopyFunction(Heap, f)
    IN  Commit(r.h) /\ result' = Call("deepcopyFunction", r.id, <<f>>, r.raised)

DeepcopyFunctionSet(fs) ==
    LET r == deepcopyFunctionSet(Heap, fs)
    IN  Commit(r.h) /\ result' = Call("deepcopyFunctionSet", r.id, <<fs>>, r.raised)

DeepcopyModel(m) ==
    LET r == deepcopyModel(Heap, m)
    IN  Commit(r.h) /\ result' = Call("deepcopyModel", r.id, <<m>>, r.raised)

Init ==
    /\ params = <<>>
    /\ funcs = <<>>
    /\ flists = <<>>
    /\ fsets = <<>>
    /\ models = <<>>
    /\ result = Call("None", 0, <<>>, "None")

\* ------------------------------------------------------------------------
\* SpecParam: the life of parameter entries, every argument shape
\* ------------------------------------------------------------------------
ParamCreate ==
    \E value \in Values, vmin \in LowerArgs,
       vmax \in UpperArgs, fixed \in BOOLEAN :
        /\ Len(params) < MaxEntries
        /\ NewParameter("I_0", value, vmin, vmax, fixed)

ParamSetValue ==
    \E i \in DOMAIN params, value \in Values,
       vmin \in LowerArgs,
       vmax \in UpperArgs, fixed \in BOOLEAN :
        SetValue(i, value, vmin, vmax, fixed)

ParamSetTolerance ==
    \E i \in DOMAIN params, tol \in Tolerances : SetTolerance(i, tol)

ParamSetLimitsRel ==
    \E i \in DOMAIN params, i1 \in Intervals, i2 \in Intervals :
        SetLimitsRel(i, i1, i2)

ParamSetLimits ==
    \E i \in DOMAIN params, v1 \in LimitArgs, v2 \in LimitArgs :
        SetLimits(i, v1, v2)

NextParam ==
    \/ ParamCreate
    \/ ParamSetValue
    \/ ParamSetTolerance
    \/ ParamSetLimitsRel
    \/ ParamSetLimits

SpecParam == Init /\ [][NextParam]_vars

\* ------------------------------------------------------------------------
\* Sessions that build models.  The data model is a strict tree: an entry is
\* owned by one container.  A session therefore hands an add-operation an
\* entry that no container holds yet (or an object of the wrong type), and
\* creates the next entry of a class once the last one has an owner.  The
\* k-th object of a class is created with the k-th name of its class or with
\* the first one again, so that labels collide.
\* ------------------------------------------------------------------------
Range(seq) == {seq[k] : k \in DOMAIN seq}

OwnedParams ==
    {fsets[s].x0 : s \in DOMAIN fsets} \cup {fsets[s].y0 : s \in DOMAIN fsets}
        \cup UNION {Range(funcs[f].parameters) : f \in DOMAIN funcs}
OwnedFuncs == UNION {Range(flists[l]) : l \in DOMAIN flists}
OwnedSets == UNION {Range(models[m].functionSets) : m \in DOMAIN models}

FreeParams == (DOMAIN params) \ OwnedParams
FreeFuncs == (DOMAIN funcs) \ OwnedFuncs
FreeSets == (DOMAIN fsets) \ OwnedSets

Written == {i \in DOMAIN params : params[i].value \in FittedValues}

\* Creations commute: the parameters a session makes itself are made before
\* its first function set (whose constructor makes X0 and Y0).
BuildParameter ==
    LET a == ParamArgs[Len(params) + 1]
    IN  /\ FreeParams = {}
        /\ fsets = <<>>
        /\ Len(params) < MaxParams
        /\ NewParameter(a[1], a[2], a[3], None, a[4])

BuildFunction ==
    \E a \in {FuncArgs[Len(funcs) + 1], FuncArgs[1]} :
        /\ FreeFuncs = {}
        /\ Len(funcs) < MaxFuncs
        /\ CreateFunction(a[1], a[2])

BuildAddParameter ==
    \E f \in DOMAIN funcs, p \in FreeParams \cup {0} : AddParameter(f, p)

BuildFunctionSet ==
    \E name \in {SetNames[Len(fsets) + 1], SetNames[1]} :
        /\ FreeSets = {}
        /\ Len(fsets) < MaxSets
        /\ CreateFunctionSet(name, None, None)

BuildAddFunction ==
    \E fs \in DOMAIN fsets, f \in FreeFuncs \cup {0} : AddFunction(fs, f)

BuildModel ==
    /\ Len(models) < MaxModels
    /\ CreateModel(NoOptions)

BuildAddFunctionSet ==
    \E m \in DOMAIN models, fs \in FreeSets \cup {0} : AddFunctionSet(m, fs)

\* the optimizer's write-back of a fitted value
WriteValue ==
    \E i \in DOMAIN params, v \in FittedValues :
        /\ Cardinality(Written) < MaxWrites
        /\ SetValue(i, v, None, None, FALSE)

\* ------------------------------------------------------------------------
\* SpecTree: models built by the add-operations
\* ------------------------------------------------------------------------
NextTree ==
    \/ BuildParameter
    \/ BuildFunction
    \/ BuildAddParameter
    \/ BuildFunctionSet
    \/ BuildAddFunction
    \/ BuildModel
    \/ BuildAddFunctionSet
    \/ WriteValue

SpecTree == Init /\ [][NextTree]_vars

\* ------------------------------------------------------------------------
\* SpecClone: copy construction and deep copies of what a session has built
\* ------------------------------------------------------------------------
Fits(h) ==
    /\ Len(h.params) <= CloneParams
    /\ Len(h.funcs) <= CloneFuncs
    /\ Len(h.fsets) <= CloneSets
    /\ Len(h.models) <= CloneModels

CloneParameter ==
    LET a == ParamArgs[Len(params) + 1]
    IN  /\ params = <<>>
        /\ NewParameter(a[1], a[2], a[3], None, a[4])

CloneFunction ==
    LET a == FuncArgs[Len(funcs) + 1]
    IN  /\ funcs = <<>>
        /\ CreateFunction(a[1], a[2])

CloneAddParameter ==
    \E f \in DOMAIN funcs, p \in FreeParams : AddParameter(f, p)

CloneFunctionSet ==
    /\ FreeSets = {}
    /\ Fits(newFunctionSet(Heap, "fs", None, None).h)
    /\ CreateFunctionSet(SetNames[Len(fsets) + 1], None, None)

CloneAddFunction ==
    \E fs \in DOMAIN fsets, f \in FreeFuncs : AddFunction(fs, f)

CloneModel ==
    \E options \in OptionArgs :
        /\ models = <<>>
        /\ CreateModel(options)

CloneAddFunctionSet ==
    \E m \in DOMAIN models, fs \in FreeSets : AddFunctionSet(m, fs)

CloneSimple ==
    \E inst \in {None, <<0>>} \cup {<<m>> : m \in DOMAIN models} :
        /\ Fits(newSimple(Heap, inst).h)
        /\ CreateSimple(inst)

CloneSimpleAddFunction ==
    \E m \in DOMAIN models, f \in FreeFuncs :
        /\ models[m].cls = "SimpleModelDescription"
        /\ SimpleAddFunction(m, f)

CloneDeepcopyFunction ==
    \E f \in DOMAIN funcs :
        /\ FreeFuncs = {}
        /\ Fits(deepcopyFunction(Heap, f).h)
        /\ DeepcopyFunction(f)

CloneDeepcopyFunctionSet ==
    \E fs \in DOMAIN fsets :
        /\ FreeSets = {}
        /\ Fits(deepcopyFunctionSet(Heap, fs).h)
        /\ DeepcopyFunctionSet(fs)

CloneDeepcopyModel ==
    \E m \in DOMAIN models :
        /\ Fits(deepcopyModel(Heap, m).h)
        /\ DeepcopyModel(m)

NextClone ==
    \/ CloneParameter
    \/ CloneFunction
    \/ CloneAddParameter
    \/ CloneFunctionSet
    \/ CloneAddFunction
    \/ CloneModel
    \/ CloneAddFunctionSet
    \/ CloneSimple
    \/ CloneSimpleAddFunction
    \/ CloneDeepcopyFunction
    \/ CloneDeepcopyFunctionSet
    \/ CloneDeepcopyModel
    \/ WriteValue

SpecClone == Init /\ [][NextClone]_vars

\* ========================================================================
\* Claims on a parameter entry (SpecParam)
\* ========================================================================
HasLimits(p) == p.limits # None

\* C1: in every state, an entry that has limits has lower < upper and
\* lower <= value <= upper.
C1_LimitsContainValue ==
    \A i \in DOMAIN params :
        HasLimits(params[i]) =>
            /\ params[i].limits[1] < params[i].limits[2]
            /\ params[i].limits[1] <= params[i].value
            /\ params[i].value <= params[i].limits[2]

\* C9: setTolerance(tol) sets limits to (value*(1-tol), value*(1+tol)) for
\* every tol strictly between 0 and 1, fails for tol = 0, and fails with a
\* ValueError (InvalidArgument) for tol < 0 and for tol > 1.
C9_SetToleranceContract ==
    result.op = "setTolerance" =>
        LET tol == result.args[1]
            p == params[result.target]
        IN  /\ (0 < tol /\ tol < TolDen) =>
                /\ result.raised = "None"
                /\ p.limits = <<(p.value * (TolDen - tol)) \div TolDen,
                                (p.value * (TolDen + tol)) \div TolDen>>
            /\ (tol = 0) => result.raised # "None"
            /\ (tol < 0 \/ tol > TolDen) => result.raised = "ValueError"

IsScalar(arg) == Len(arg) = 1
IsPair(arg) == Len(arg) = 2

\* C10: setValue and the constructor fail with a ValueError (InvalidBounds)
\* whenever one of lower/upper is given as a scalar without the other, and
\* accept bounds only when both are given, both are omitted, or lower alone
\* is a pair.
C10_LoneBoundRejected ==
    result.op \in {"setValue", "ParameterDescription"} =>
        LET vmin == result.args[2]
            vmax == result.args[3]
        IN  /\ (IsScalar(vmin) /\ vmax = None) => result.raised = "ValueError"
            /\ (vmin = None /\ vmax # None) => result.raised = "ValueError"
            /\ result.raised = "None" =>
                \/ IsScalar(vmin) /\ IsScalar(vmax)
                \/ vmin = None /\ vmax = None
                \/ IsPair(vmin) /\ vmax = None

\* the two bounds of a call, each moved to the value if the value is beyond it
ClampedLower(value, lower) == IF value < lower THEN value ELSE lower
ClampedUpper(value, upper) == IF value > upper THEN value ELSE upper

\* C11: setValue(value, lower, upper) with both bounds given stores lower
\* moved down to the value if value < lower, upper moved up to the value if
\* value > upper, and the bounds as given otherwise; it raises ValueError
\* (InvalidBounds) exactly when lower >= upper after this; on success the
\* stored value is the given value and the limits contain it.
C11_SetValueClampsBounds ==
    (/\ result.op \in {"setValue", "ParameterDescription"}
     /\ IsScalar(result.args[2])
     /\ IsScalar(result.args[3])) =>
        LET value == result.args[1]
            lower == ClampedLower(value, result.args[2][1])
            upper == ClampedUpper(value, result.args[3][1])
        IN  /\ result.raised = "ValueError" <=> lower >= upper
            /\ result.raised \in {"None", "ValueError"}
            /\ result.raised = "None" =>
                /\ params[result.target].value = value
                /\ params[result.target].limits = <<lower, upper>>
                /\ lower <= value /\ value <= upper

\* setValue moved the upper bound of an existing entry up to the value
C11_Witness ==
    /\ result.op = "setValue"
    /\ result.raised = "None"
    /\ IsScalar(result.args[2]) /\ IsScalar(result.args[3])
    /\ result.args[1] > result.args[3][1]
    /\ params[result.target].limits = <<result.args[2][1], result.args[1]>>

\* C12: setLimits(lower, upper) with lower < upper succeeds, leaves the
\* value and the fixed flag as they were, and stores limits (lower', upper')
\* with lower' < upper' and lower' <= value <= upper', where a bound differs
\* from the one given only if that one was on the wrong side of the value
\* (and then it is the value); with lower >= upper it raises ValueError
\* (InvalidBounds).
C12_SetLimitsContract ==
    [][result'.op = "setLimits" =>
        \A i \in {result'.target}, v1 \in {result'.args[1]}, v2 \in {result'.args[2]} :
            /\ v1 >= v2 => result'.raised = "ValueError"
            /\ v1 < v2 =>
                /\ result'.raised = "None"
                /\ params'[i].value = params[i].value
                /\ params'[i].fixed = params[i].fixed
                /\ HasLimits(params'[i])
                /\ params'[i].limits[1] < params'[i].limits[2]
                /\ params'[i].limits[1] <= params[i].value
                /\ params[i].value <= params'[i].limits[2]
                /\ params'[i].limits[1] # v1 =>
                       (v1 > params[i].value /\ params'[i].limits[1] = params[i].value)
                /\ params'[i].limits[2] # v2 =>
                       (v2 < params[i].value /\ params'[i].limits[2] = params[i].value)
      ]_vars

\* setLimits moved the lower bound down to the value of the entry
C12_Witness ==
    /\ result.op = "setLimits"
    /\ result.raised = "None"
    /\ result.args[1] > params[result.target].value
    /\ params[result.target].limits = <<params[result.target].value, result.args[2]>>

Mutations == {"setValue", "setTolerance", "setLimitsRel", "setLimits"}

\* C14: a call of setValue, setTolerance, setLimitsRel or setLimits on an
\* entry that raises leaves the value, the limits and the fixed flag of the
\* entry exactly as they were before the call.
C14_FailedCallChangesNothing ==
    [][(result'.op \in Mutations /\ result'.raised # "None") =>
        \A i \in {result'.target} :
            /\ params'[i].value = params[i].value
            /\ params'[i].limits = params[i].limits
            /\ params'[i].fixed = params[i].fixed
      ]_vars

\* setValue with another value and bounds it cannot keep apart was refused
\* on an entry that has limits
C14_Witness ==
    /\ result.op = "setValue"
    /\ result.raised = "ValueError"
    /\ IsScalar(result.args[2]) /\ IsScalar(result.args[3])
    /\ result.args[1] # params[result.target].value
    /\ HasLimits(params[result.target])

\* ========================================================================
\* Claims on models built by the add-operations (SpecTree)
\* ========================================================================
RECURSIVE SeqSum(_)
SeqSum(seq) == IF seq = <<>> THEN 0 ELSE Head(seq) + SeqSum(Tail(seq))

FunctionsOf(fs) == flists[fsets[fs].functions]
NumParams(f) == Len(funcs[f].parameters)
\* the number of entries a function set contributes: X0, Y0, its functions'
SetSize(fs) ==
    2 + SeqSum([j \in DOMAIN FunctionsOf(fs) |-> NumParams(FunctionsOf(fs)[j])])
\* where the k-th set of m starts in the flat vector, and where the j-th
\* function of a set starts within the set
SetStart(m, k) ==
    SeqSum([q \in 1..(k - 1) |-> SetSize(models[m].functionSets[q])])
FuncStart(fs, j) ==
    2 + SeqSum([q \in 1..(j - 1) |-> NumParams(FunctionsOf(fs)[q])])

\* C2: parameterList() of a model is the pre-order traversal of its tree:
\* each set in order contributes its x0, its y0 and then, function by
\* function in order, the function's parameters in order; the positions so
\* described are all the positions of the list.
C2_ParameterListIsPreOrder ==
    \A m \in DOMAIN models :
        LET sets == models[m].functionSets
            pl == parameterList(m)
        IN  /\ Len(pl) = SeqSum([k \in DOMAIN sets |-> SetSize(sets[k])])
            /\ \A k \in DOMAIN sets :
                /\ pl[SetStart(m, k) + 1] = fsets[sets[k]].x0
                /\ pl[SetStart(m, k) + 2] = fsets[sets[k]].y0
                /\ \A j \in DOMAIN FunctionsOf(sets[k]) :
                     \A i \in 1..NumParams(FunctionsOf(sets[k])[j]) :
                        pl[SetStart(m, k) + FuncStart(sets[k], j) + i]
                            = funcs[FunctionsOf(sets[k])[j]].parameters[i]

\* a model of two sets whose first set holds two functions, the first of
\* them with two parameters
C2_Witness ==
    \E m \in DOMAIN models :
        /\ Len(models[m].functionSets) >= 2
        /\ Len(FunctionsOf(models[m].functionSets[1])) = 2
        /\ NumParams(FunctionsOf(models[m].functionSets[1])[1]) = 2
        /\ Len(parameterList(m)) >= 6

AddOps == {"addParameter", "addFunction", "addFunctionSet"}

\* C3: getRawParameters(), getParameterLimits() and parameterList() of a
\* model have one length, element i of the first two is the value and the
\* limits of element i of the third, and a step that is no add-operation
\* leaves parameterList() as it was.
C3_VectorsCorrespond ==
    [][/\ \A m \in DOMAIN models' :
            /\ Len(getRawParameters(m)') = Len(parameterList(m)')
            /\ Len(getParameterLimits(m)') = Len(parameterList(m)')
            /\ \A i \in 1..Len(parameterList(m)') :
                /\ getRawParameters(m)'[i] = params'[parameterList(m)'[i]].value
                /\ getParameterLimits(m)'[i] = params'[parameterList(m)'[i]].limits
       /\ result'.op \notin AddOps =>
            \A m \in DOMAIN models : parameterList(m)' = parameterList(m)
      ]_vars

\* a model whose vector holds a fixed entry, a bounded entry and a written
\* value, after a write-back
C3_Witness ==
    /\ result.op = "setValue"
    /\ \E m \in DOMAIN models :
        /\ Len(models[m].functionSets) >= 2
        /\ \E i \in DOMAIN parameterList(m) : params[parameterList(m)[i]].fixed
        /\ \E i \in DOMAIN parameterList(m) : getParameterLimits(m)[i] # None
        /\ \E i \in DOMAIN parameterList(m) : getRawParameters(m)[i] \in FittedValues

\* C4: functionSetIndices() gives, for each function set of a model in
\* order, the position in functionList() at which the set's functions
\* start: the number of functions of the sets before it.
C4_IndicesAreStartOffsets ==
    \A m \in DOMAIN models :
        \A k \in DOMAIN models[m].functionSets :
            /\ k \in DOMAIN functionSetIndices(m)
            /\ functionSetIndices(m)[k] =
                 SeqSum([q \in 1..(k - 1) |->
                            Len(FunctionSet_functionList(models[m].functionSets[q]))])

LabelsUnique ==
    /\ \A l \in DOMAIN flists : \A a, b \in DOMAIN flists[l] :
          funcs[flists[l][a]].name = funcs[flists[l][b]].name => a = b
    /\ \A m \in DOMAIN models : \A a, b \in DOMAIN models[m].functionSets :
          fsets[models[m].functionSets[a]].name = fsets[models[m].functionSets[b]].name
              => a = b

\* C8: addFunction with a label its set already holds and addFunctionSet
\* with a label its model already holds raise KeyError (DuplicateName) and
\* leave the collection as it was, so labels are pairwise distinct within
\* every set and every model.
C8_LabelsStayUnique ==
    [][/\ LabelsUnique'
       /\ (/\ result'.op = "addFunction"
           /\ result'.args[1] # 0
           /\ FunctionSet_contains(Heap, result'.target, funcs[result'.args[1]].name))
          => (result'.raised = "KeyError" /\ UNCHANGED <<flists, fsets>>)
       /\ (/\ result'.op = "addFunctionSet"
           /\ result'.args[1] # 0
           /\ models[result'.target].cls = "ModelDescription"
           /\ Model_contains(Heap, result'.target, fsets[result'.args[1]].name))
          => (result'.raised = "KeyError" /\ UNCHANGED models)
      ]_vars

\* a duplicate set label was refused by a model that holds a set of two
\* functions
C8_Witness ==
    /\ result.op = "addFunctionSet"
    /\ result.raised = "KeyError"
    /\ \E l \in DOMAIN flists : Len(flists[l]) = 2
    /\ Len(models[result.target].functionSets) >= 1

\* ========================================================================
\* Claims on copies (SpecClone)
\* ========================================================================

\* What an object holds, by value: the ordered collections and the entries
FunctionView(f) ==
    [funcType |-> funcs[f].funcType, name |-> funcs[f].name,
     parameters |-> [k \in DOMAIN funcs[f].parameters |-> params[funcs[f].parameters[k]]]]
SetView(fs) ==
    [name |-> fsets[fs].name, x0 |-> params[fsets[fs].x0], y0 |-> params[fsets[fs].y0],
     functions |-> [k \in DOMAIN FunctionsOf(fs) |-> FunctionView(FunctionsOf(fs)[k])]]
ModelView(m) ==
    [k \in DOMAIN models[m].functionSets |-> SetView(models[m].functionSets[k])]

\* The objects reachable from an object, by class
ParamsOfFunction(f) == Range(funcs[f].parameters)
FuncsOfSet(fs) == Range(FunctionsOf(fs))
ParamsOfSet(fs) ==
    {fsets[fs].x0, fsets[fs].y0} \cup UNION {ParamsOfFunction(f) : f \in FuncsOfSet(fs)}
SetsOfModel(m) == Range(models[m].functionSets)
ListsOfModel(m) == {fsets[fs].functions : fs \in SetsOfModel(m)}
FuncsOfModel(m) == UNION {FuncsOfSet(fs) : fs \in SetsOfModel(m)}
ParamsOfModel(m) == UNION {ParamsOfSet(fs) : fs \in SetsOfModel(m)}

CopyConstructed ==
    /\ result.op = "SimpleModelDescription"
    /\ result.raised = "None"
    /\ result.args # None

\* C5: once s is copy-constructed from m, an operation on s (addFunction, a
\* write to s.x0, s.y0 or a parameter of its functions) leaves what m holds
\* unchanged, and such an operation on m leaves what s holds unchanged.
\* Stated for the call that follows the construction.
C5_CopyIsByValue ==
    [][CopyConstructed =>
        \A s \in {result.target}, m \in {result.args[1]} :
            /\ (\/ result'.op = "Simple.addFunction" /\ result'.target = s
                \/ result'.op = "setValue" /\ result'.target \in ParamsOfModel(s)
                \/ result'.op = "addParameter" /\ result'.target \in FuncsOfModel(s))
               => ModelView(m)' = ModelView(m)
            /\ (\/ result'.op = "addFunction" /\ result'.target \in SetsOfModel(m)
                \/ result'.op = "setValue" /\ result'.target \in ParamsOfModel(m)
                \/ result'.op = "addParameter" /\ result'.target \in FuncsOfModel(m))
               => ModelView(s)' = ModelView(s)
      ]_vars

Deepcopied(op) == result.op = op /\ result.raised = "None"

\* a deep copy and its source have no parameter, function, list of
\* functions or function set in common
DisjointAfterDeepcopy ==
    /\ Deepcopied("deepcopyFunction") =>
        /\ result.target # result.args[1]
        /\ ParamsOfFunction(result.target) \cap ParamsOfFunction(result.args[1]) = {}
    /\ Deepcopied("deepcopyFunctionSet") =>
        /\ result.target # result.args[1]
        /\ fsets[result.target].functions # fsets[result.args[1]].functions
        /\ FuncsOfSet(result.target) \cap FuncsOfSet(result.args[1]) = {}
        /\ ParamsOfSet(result.target) \cap ParamsOfSet(result.args[1]) = {}
    /\ Deepcopied("deepcopyModel") =>
        /\ result.target # result.args[1]
        /\ SetsOfModel(result.target) \cap SetsOfModel(result.args[1]) = {}
        /\ ListsOfModel(result.target) \cap ListsOfModel(result.args[1]) = {}
        /\ FuncsOfModel(result.target) \cap FuncsOfModel(result.args[1]) = {}
        /\ ParamsOfModel(result.target) \cap ParamsOfModel(result.args[1]) = {}

\* the call that follows a deep copy changes what the clone holds or what
\* the source holds, never both
IndependentAfterDeepcopy ==
    /\ Deepcopied("deepcopyFunction") =>
        \A c \in {result.target}, s \in {result.args[1]} :
            FunctionView(c)' = FunctionView(c) \/ FunctionView(s)' = FunctionView(s)
    /\ Deepcopied("deepcopyFunctionSet") =>
        \A c \in {result.target}, s \in {result.args[1]} :
            SetView(c)' = SetView(c) \/ SetView(s)' = SetView(s)
    /\ Deepcopied("deepcopyModel") =>
        \A c \in {result.target}, s \in {result.args[1]} :
            ModelView(c)' = ModelView(c) \/ ModelView(s)' = ModelView(s)

\* C6: a deep copy of a function, a function set or a model shares no
\* entry with its source: a write to a parameter of the one, or an addition
\* to the one, leaves what the other holds unchanged.
C6_DeepcopyIsIndependent ==
    [][DisjointAfterDeepcopy' /\ IndependentAfterDeepcopy]_vars

\* a model with a function parameter has been deep-copied
C6_Witness ==
    /\ Deepcopied("deepcopyModel")
    /\ Len(parameterList(result.target)) >= 3
    /\ ModelView(result.target) = ModelView(result.args[1])

IsSimple(m) == models[m].cls = "SimpleModelDescription"

\* C7: a SimpleModelDescription holds exactly one function set in every
\* state; constructing one from a model that does not hold exactly one set
\* raises ValueError (InvalidArgument) and makes no object; addFunctionSet
\* on one raises Exception (CapacityExceeded) and changes nothing.
C7_SimpleHoldsOneSet ==
    [][/\ \A m \in DOMAIN models' : IsSimple(m)' => Len(models'[m].functionSets) = 1
       /\ \A m \in DOMAIN models : IsSimple(m) =>
            models'[m].functionSets = models[m].functionSets
       /\ (/\ result'.op = "SimpleModelDescription"
           /\ result'.args # None
           /\ result'.args[1] # 0
           /\ Len(models[result'.args[1]].functionSets) # 1)
          => (result'.raised = "ValueError" /\ UNCHANGED <<params, funcs, flists, fsets, models>>)
       /\ (result'.op = "addFunctionSet" /\ IsSimple(result'.target))
          => (result'.raised = "Exception" /\ UNCHANGED <<params, funcs, flists, fsets, models>>)
      ]_vars

\* addFunctionSet was refused by a SimpleModelDescription that is a deep copy
C7_Witness ==
    /\ result.op = "addFunctionSet"
    /\ result.raised = "Exception"
    /\ IsSimple(result.target)
    /\ "fs" \in DOMAIN models[result.target].attrs
    /\ models[result.target].attrs["fs"] \notin SetsOfModel(result.target)

\* a model with at least one function set and a function in every set
HasFunctions(m) ==
    /\ models[m].functionSets # <<>>
    /\ \A k \in DOMAIN models[m].functionSets :
          flists[fsets[models[m].functionSets[k]].functions] # <<>>

\* C13: parsing the text a model emits gives back a model equal to it, for
\* every model with a function set and a function in every set.  The text
\* is all a parser reads, so this asks that two such models that emit the
\* same text are equal.
C13_TextDeterminesModel ==
    \A m, n \in DOMAIN models :
        (HasFunctions(m) /\ HasFunctions(n) /\ Model_str(m) = Model_str(n))
            => Model_eq(m, n)

\* C15: the deep copy of a model is equal to the model under the model's
\* __eq__ (equal options, equal lists of function sets), whatever the
\* options of the model.
C15_CloneEqualsSource ==
    Deepcopied("deepcopyModel") => Model_eq(result.target, result.args[1])

====
